---------------------------- MODULE Spec2Model ----------------------------
(***************************************************************************)
(* A model of the document chunker of python-template-generator/loaders:   *)
(* the token accounting unit (chunker/token_counter.py), the linking pass  *)
(* and plain-text entry point (chunker/base_chunker.py) and the structural *)
(* chunk builder (chunker/semantic_chunker.py).                            *)
(*                                                                         *)
(* Texts are sequences of one-character strings.  The tokenizer is the     *)
(* external tiktoken encoder; it is modelled as a greedy longest-match     *)
(* tokenizer over a small vocabulary with multi-character tokens, so that  *)
(* a token count differs from a character count and decode(encode(t)) is   *)
(* a computed property.                                                    *)
(***************************************************************************)
EXTENDS Integers, Sequences, FiniteSets, TLC

VARIABLES
    split,      \* the frame of the running TokenCounter.split_at_token_limit call
    requested,  \* the overlap_tokens argument of that call as the caller passed it
    last,       \* the previous completed call on the same text and max_tokens
    config,     \* the ChunkingConfig of the constructed SemanticChunker
    entry,      \* the entry point last called on it, with its argument
    returned,   \* the chunk list that call returned
    chunker,    \* how far BaseChunker.__init__ has got with that config
    cache,      \* TokenCounter._cache: the (key, count) items in insertion order
    calls,      \* the frame of each worker's running TokenCounter.count call
    enricher,   \* the frame of FullEnhancedEnricher._split_multi_example_block
    previous,   \* the chunk ids an earlier run of the same call returned
    store       \* the mappings and counters of a FAISSVectorStore

vars ==
    <<split, requested, last, config, entry, returned, chunker, cache, calls,
      enricher, previous, store>>
splitVars == <<split, requested, last>>
chunkerVars == <<config, entry, returned>>
counterVars == <<cache, calls>>

(***************************************************************************)
(* Bounds of the model.                                                    *)
(***************************************************************************)
MaxTextLen == 5
MaxBudget == 3
MaxPieces == 7
MaxBlockLines == 3
MaxCountedLen == 2
CacheLimit == 2
CacheKept == 1

Min(a, b) == IF a < b THEN a ELSE b
Max(a, b) == IF a > b THEN a ELSE b

(***************************************************************************)
(* Texts and the tokenizer.                                                *)
(***************************************************************************)
Alphabet == {"a", "b"}

TextsUpTo(n) == UNION {[1..k -> Alphabet] : k \in 0..n}

\* The backquote character (a TLA+ string cannot hold it) and the code fence.
Backquote == "BQ"
Fence == <<Backquote, Backquote, Backquote>>

\* The multi-character entries of the vocabulary; every single character is
\* a token as well.
Vocab == {<<"a", "b">>, <<"\n", "\n">>, Fence}

VocabMatches(text, i) ==
    {v \in Vocab : /\ i + Len(v) - 1 <= Len(text)
                   /\ SubSeq(text, i, i + Len(v) - 1) = v}

NextToken(text, i) ==
    LET m == VocabMatches(text, i) IN
    IF m = {} THEN <<text[i]>>
    ELSE CHOOSE v \in m : \A w \in m : Len(w) <= Len(v)

RECURSIVE EncodeFrom(_, _)
EncodeFrom(text, i) ==
    IF i > Len(text) THEN <<>>
    ELSE LET tok == NextToken(text, i) IN
         <<tok>> \o EncodeFrom(text, i + Len(tok))

\* TokenCounter.encode
Encode(text) == EncodeFrom(text, 1)

\* TokenCounter.decode
RECURSIVE Decode(_)
Decode(tokens) ==
    IF tokens = <<>> THEN <<>> ELSE Head(tokens) \o Decode(Tail(tokens))

\* TokenCounter.count (the value it computes on a cache miss)
Count(text) == Len(Encode(text))

\* Python seq[lo:hi] for integers lo and hi, negative indices included.
PySlice(s, lo, hi) ==
    LET n == Len(s)
        l == IF lo < 0 THEN Max(lo + n, 0) ELSE Min(lo, n)
        h == IF hi < 0 THEN Max(hi + n, 0) ELSE Min(hi, n)
    IN IF l >= h THEN <<>> ELSE SubSeq(s, l + 1, h)

(***************************************************************************)
(* TokenCounter.split_at_token_limit, one loop iteration per step.         *)
(***************************************************************************)
\* Line 103: the overlap is made smaller than max_tokens.
ClampOverlapMissing(overlap_tokens, max_tokens) == overlap_tokens
ClampOverlap(overlap_tokens, max_tokens) == Min(overlap_tokens, max_tokens - 1)

\* Lines 96-106: encode, the early return when the text fits, the clamp of
\* the overlap and the loop's initial state.
SplitEnterWithoutEarlyReturn(text, max_tokens, overlap_tokens) ==
    [text |-> text, tokens |-> Encode(text), max_tokens |-> max_tokens,
     overlap_tokens |-> ClampOverlap(overlap_tokens, max_tokens),
     start |-> 0, prev_start |-> -1, chunks |-> <<>>, pc |-> "loop"]
SplitEnter(text, max_tokens, overlap_tokens) ==
    LET tokens == Encode(text) IN
    IF Len(tokens) <= max_tokens
    THEN [text |-> text, tokens |-> tokens, max_tokens |-> max_tokens,
          overlap_tokens |-> overlap_tokens, start |-> 0, prev_start |-> -1,
          chunks |-> <<text>>, pc |-> "done"]
    ELSE [text |-> text, tokens |-> tokens, max_tokens |-> max_tokens,
          overlap_tokens |-> ClampOverlap(overlap_tokens, max_tokens),
          start |-> 0, prev_start |-> -1, chunks |-> <<>>, pc |-> "loop"]

\* Line 107 and lines 109-110: the loop ends when start has passed the tokens
\* or when start did not move.
SplitExits(st) ==
    \/ ~(st.start < Len(st.tokens))
    \/ st.start = st.prev_start

\* Line 114: the end of the window.
WindowEndOffByOne(st) == Min(st.start + st.max_tokens + 1, Len(st.tokens))
WindowEnd(st) == Min(st.start + st.max_tokens, Len(st.tokens))

\* Lines 129-133: the next window start.
NextStart(st, end) ==
    IF st.overlap_tokens > 0 /\ end < Len(st.tokens)
    THEN Max(st.start + 1, end - st.overlap_tokens)
    ELSE end

\* Lines 117-122: the tokens of the piece.
PieceTokens(st, end) ==
    IF st.start > 0 /\ st.overlap_tokens > 0
    THEN PySlice(st.tokens, Max(0, st.start - st.overlap_tokens), end)
    ELSE PySlice(st.tokens, st.start, end)

\* Lines 111-133: one iteration of the loop body.
SplitIterate(st) ==
    LET end == WindowEnd(st) IN
    [st EXCEPT !.prev_start = st.start,
               !.chunks = Append(st.chunks, Decode(PieceTokens(st, end))),
               !.start = NextStart(st, end)]

\* ChunkingConfig(): the defaults of models.py
DefaultMaxTokens == 512
DefaultOverlapTokens == 50
DefaultMinChunkTokens == 50
DefaultConfig ==
    [max_tokens |-> DefaultMaxTokens, overlap_tokens |-> DefaultOverlapTokens,
     min_chunk_tokens |-> DefaultMinChunkTokens,
     respect_paragraph_boundaries |-> TRUE]

\* No entry point called yet.
EmptyDoc == [sections |-> <<>>, full_examples |-> <<>>]
NoEntry == [kind |-> "none", text |-> <<>>, doc |-> EmptyDoc]

\* BaseChunker.__init__ not entered, and returned.
NotConstructed == [pc |-> "new", token_counter |-> FALSE]
Constructed == [pc |-> "ready", token_counter |-> TRUE]

\* TokenCounter.__init__, line 22: an empty cache; no count call running.
Workers == {1, 2}
EmptyCache == <<>>
IdleCall ==
    [pc |-> "idle", text |-> <<>>, cache_key |-> 0, result |-> 0,
     evicted |-> FALSE]
NoCalls == [w \in Workers |-> IdleCall]

\* No earlier run of the call.
\* FAISSVectorStore.__init__ (faiss_store.py, lines 59-62) and the empty
\* index: the two mappings, the metadata, next_idx and index.ntotal.  added
\* counts the vectors ever added and deleted holds the ids that were
\* deleted and not added again.
EmptyStore ==
    [id_to_idx |-> <<>>, idx_to_id |-> <<>>, metadata_store |-> <<>>,
     next_idx |-> 0, ntotal |-> 0, added |-> 0, deleted |-> {}]

NoPreviousRun == [valid |-> FALSE, fresh |-> FALSE, ids |-> <<>>]

\* No block handed to the enricher.
IdleEnricher ==
    [pc |-> "idle", content |-> <<>>, lines |-> <<>>, examples |-> <<>>,
     current_lines |-> <<>>, current_type |-> "None",
     current_markers |-> <<>>]

Budgets == -1..MaxBudget
Overlaps == -1..(MaxBudget + 1)

SplitCallFits(ov) ==
    /\ split.pc = "done"
    /\ LET st == SplitEnter(split.text, split.max_tokens, ov) IN
       /\ st.pc = "done"
       /\ split' = st
    /\ requested' = ov
    /\ last' = [valid |-> TRUE, overlap_tokens |-> requested,
                chunks |-> split.chunks]
    /\ UNCHANGED <<chunkerVars, chunker, counterVars, enricher,
                   previous, store>>

SplitCallLoop(ov) ==
    /\ split.pc = "done"
    /\ LET st == SplitEnter(split.text, split.max_tokens, ov) IN
       /\ st.pc = "loop"
       /\ split' = st
    /\ requested' = ov
    /\ last' = [valid |-> TRUE, overlap_tokens |-> requested,
                chunks |-> split.chunks]
    /\ UNCHANGED <<chunkerVars, chunker, counterVars, enricher,
                   previous, store>>

SplitStep ==
    /\ split.pc = "loop"
    /\ ~SplitExits(split)
    /\ Len(split.chunks) < MaxPieces
    /\ split' = SplitIterate(split)
    /\ UNCHANGED <<requested, last>>
    /\ UNCHANGED <<chunkerVars, chunker, counterVars, enricher,
                   previous, store>>

SplitReturn ==
    /\ split.pc = "loop"
    /\ SplitExits(split)
    /\ split' = [split EXCEPT !.pc = "done"]
    /\ UNCHANGED <<requested, last>>
    /\ UNCHANGED <<chunkerVars, chunker, counterVars, enricher,
                   previous, store>>

SplitInit ==
    /\ \E text \in TextsUpTo(MaxTextLen), m \in Budgets, ov \in Overlaps :
          /\ split = SplitEnter(text, m, ov)
          /\ requested = ov
    /\ last = [valid |-> FALSE, overlap_tokens |-> 0, chunks |-> <<>>]
    /\ config = DefaultConfig
    /\ entry = NoEntry
    /\ returned = <<>>
    /\ chunker = NotConstructed
    /\ cache = EmptyCache
    /\ calls = NoCalls
    /\ enricher = IdleEnricher
    /\ previous = NoPreviousRun
    /\ store = EmptyStore

SplitNext ==
    \/ \E ov \in Overlaps : SplitCallFits(ov)
    \/ \E ov \in Overlaps : SplitCallLoop(ov)
    \/ SplitStep
    \/ SplitReturn

SplitSpec == SplitInit /\ [][SplitNext]_vars

(***************************************************************************)
(* The whole call as one value: the loop run to its end.  Used where the   *)
(* chunker calls split_at_token_limit as a step of its own.                *)
(***************************************************************************)
RECURSIVE SplitRun(_)
SplitRun(st) ==
    IF st.pc = "done" \/ SplitExits(st) THEN st.chunks
    ELSE SplitRun(SplitIterate(st))

SplitAtTokenLimit(text, max_tokens, overlap_tokens) ==
    SplitRun(SplitEnter(text, max_tokens, overlap_tokens))

(***************************************************************************)
(* TokenCounter.estimate_chunks_needed.  The quotient of line 231 is a     *)
(* float: int() cuts it towards zero and "% 1 > 0" says whether it has a   *)
(* fractional part; a zero divisor raises ZeroDivisionError.               *)
(***************************************************************************)
EstimateChunksNeededIgnoringOverlap(text, max_tokens, overlap_tokens) ==
    LET total_tokens == Count(text) IN
    IF total_tokens <= max_tokens THEN 1
    ELSE IF max_tokens = 0 THEN "ZeroDivisionError"
    ELSE LET a == IF total_tokens < 0 THEN -total_tokens ELSE total_tokens
             b == IF max_tokens < 0 THEN -max_tokens ELSE max_tokens
             negative == (total_tokens < 0) # (max_tokens < 0)
             int_chunks == IF negative THEN -(a \div b) ELSE a \div b
         IN Max(1, int_chunks + (IF a % b > 0 THEN 1 ELSE 0))
EstimateChunksNeeded(text, max_tokens, overlap_tokens) ==
    LET total_tokens == Count(text)
        effective_tokens_per_chunk == max_tokens - overlap_tokens
        dividend == total_tokens - overlap_tokens
    IN IF total_tokens <= max_tokens THEN 1
       ELSE IF effective_tokens_per_chunk = 0 THEN "ZeroDivisionError"
       ELSE LET a == IF dividend < 0 THEN -dividend ELSE dividend
                b == IF effective_tokens_per_chunk < 0
                     THEN -effective_tokens_per_chunk
                     ELSE effective_tokens_per_chunk
                negative == (dividend < 0) # (effective_tokens_per_chunk < 0)
                int_chunks == IF negative THEN -(a \div b) ELSE a \div b
            IN Max(1, int_chunks + (IF a % b > 0 THEN 1 ELSE 0))

(***************************************************************************)
(* Python string operations the chunker uses.                              *)
(***************************************************************************)
Whitespace == {" ", "\n", "\t", "\r", "\f"}

LowerLetters == <<"a", "b", "c", "d", "e", "f", "g", "h", "i", "j", "k", "l",
                  "m", "n", "o", "p", "q", "r", "s", "t", "u", "v", "w", "x",
                  "y", "z">>
UpperLetters == <<"A", "B", "C", "D", "E", "F", "G", "H", "I", "J", "K", "L",
                  "M", "N", "O", "P", "Q", "R", "S", "T", "U", "V", "W", "X",
                  "Y", "Z">>

\* str.upper and str.lower, on ASCII letters
Upper(text) ==
    [i \in 1..Len(text) |->
        IF \E k \in 1..26 : LowerLetters[k] = text[i]
        THEN UpperLetters[CHOOSE k \in 1..26 : LowerLetters[k] = text[i]]
        ELSE text[i]]
Lower(text) ==
    [i \in 1..Len(text) |->
        IF \E k \in 1..26 : UpperLetters[k] = text[i]
        THEN LowerLetters[CHOOSE k \in 1..26 : UpperLetters[k] = text[i]]
        ELSE text[i]]

\* text[i:].startswith(pat), i counted from 1
MatchesAt(text, i, pat) ==
    /\ i + Len(pat) - 1 <= Len(text)
    /\ SubSeq(text, i, i + Len(pat) - 1) = pat

\* pat in text
Contains(text, pat) == \E i \in 1..(Len(text) + 1) : MatchesAt(text, i, pat)

\* sep.join(parts)
RECURSIVE Join(_, _)
Join(parts, sep) ==
    IF parts = <<>> THEN <<>>
    ELSE IF Len(parts) = 1 THEN parts[1]
    ELSE parts[1] \o sep \o Join(Tail(parts), sep)

\* text.split(sep) for a non-empty separator
RECURSIVE SplitFrom(_, _, _, _)
SplitFrom(text, sep, i, cur) ==
    IF i > Len(text) THEN <<cur>>
    ELSE IF MatchesAt(text, i, sep)
         THEN <<cur>> \o SplitFrom(text, sep, i + Len(sep), <<>>)
         ELSE SplitFrom(text, sep, i + 1, Append(cur, text[i]))
SplitOn(text, sep) == SplitFrom(text, sep, 1, <<>>)

\* The first index from i on that holds no whitespace (Len(text) + 1 if none).
RECURSIVE SkipWhitespace(_, _)
SkipWhitespace(text, i) ==
    IF i <= Len(text) /\ text[i] \in Whitespace
    THEN SkipWhitespace(text, i + 1) ELSE i

\* text.strip()
RECURSIVE StripRight(_)
StripRight(text) ==
    IF text # <<>> /\ text[Len(text)] \in Whitespace
    THEN StripRight(SubSeq(text, 1, Len(text) - 1)) ELSE text
Strip(text) ==
    StripRight(SubSeq(text, SkipWhitespace(text, 1), Len(text)))

\* re.split(r'(?<=[.!?])\s+', text): a run of whitespace that follows a
\* sentence end is a separator.
SentenceEnd == {".", "!", "?"}
RECURSIVE SentencesFrom(_, _, _)
SentencesFrom(text, i, cur) ==
    IF i > Len(text) THEN <<cur>>
    ELSE IF i > 1 /\ text[i - 1] \in SentenceEnd /\ text[i] \in Whitespace
         THEN <<cur>> \o SentencesFrom(text, SkipWhitespace(text, i), <<>>)
         ELSE SentencesFrom(text, i + 1, Append(cur, text[i]))
SplitSentences(text) == SentencesFrom(text, 1, <<>>)

\* text.split(): the maximal runs of non-whitespace
RECURSIVE WordsFrom(_, _, _)
WordsFrom(text, i, cur) ==
    IF i > Len(text) THEN (IF cur = <<>> THEN <<>> ELSE <<cur>>)
    ELSE IF text[i] \in Whitespace
         THEN (IF cur = <<>> THEN <<>> ELSE <<cur>>)
              \o WordsFrom(text, i + 1, <<>>)
         ELSE WordsFrom(text, i + 1, Append(cur, text[i]))
Words(text) == WordsFrom(text, 1, <<>>)

\* re.split(r'\n(?=(?:def |class |async def ))', code): a newline that a
\* top-level declaration follows is a separator.
DeclarationStarts ==
    { <<"d", "e", "f", " ">>,
      <<"c", "l", "a", "s", "s", " ">>,
      <<"a", "s", "y", "n", "c", " ", "d", "e", "f", " ">> }
RECURSIVE DeclarationsFrom(_, _, _)
DeclarationsFrom(code, i, cur) ==
    IF i > Len(code) THEN <<cur>>
    ELSE IF /\ code[i] = "\n"
            /\ \E d \in DeclarationStarts : MatchesAt(code, i + 1, d)
         THEN <<cur>> \o DeclarationsFrom(code, i + 1, <<>>)
         ELSE DeclarationsFrom(code, i + 1, Append(cur, code[i]))
SplitAtDeclarations(code) == DeclarationsFrom(code, 1, <<>>)

(***************************************************************************)
(* Chunks (chunker/models.py) and what BaseChunker derives from a content. *)
(***************************************************************************)
\* Python None in an optional text field and in an optional chunk id.
NoText == <<"None">>
NoId == <<>>

\* The first eight hex digits of the MD5 digest: a hash with collisions.
HashBuckets == 5
CharCode(c) ==
    IF \E k \in 1..26 : LowerLetters[k] = c
    THEN CHOOSE k \in 1..26 : LowerLetters[k] = c
    ELSE IF \E k \in 1..26 : UpperLetters[k] = c
    THEN 26 + (CHOOSE k \in 1..26 : UpperLetters[k] = c)
    ELSE IF c = " " THEN 53
    ELSE IF c = "\n" THEN 54
    ELSE IF c = "." THEN 55
    ELSE IF c = "#" THEN 56
    ELSE IF c = Backquote THEN 57
    ELSE 58
RECURSIVE ContentHash(_)
ContentHash(content) ==
    IF content = <<>> THEN 0
    ELSE (ContentHash(SubSeq(content, 1, Len(content) - 1)) * 31
          + CharCode(content[Len(content)])) % HashBuckets

\* BaseChunker._generate_chunk_id: "chunk_{index:04d}_{hash}"
GenerateChunkIdWithoutIndex(content, index) == <<0, ContentHash(content)>>
GenerateChunkId(content, index) == <<index, ContentHash(content)>>

\* BaseChunker._detect_code
CodeIndicators ==
    { Fence,
      <<"d", "e", "f", " ">>,
      <<"c", "l", "a", "s", "s", " ">>,
      <<"i", "m", "p", "o", "r", "t", " ">>,
      <<"f", "r", "o", "m", " ">>,
      <<"f", "u", "n", "c", "t", "i", "o", "n", " ">>,
      <<"c", "o", "n", "s", "t", " ">>,
      <<"l", "e", "t", " ">>,
      <<"v", "a", "r", " ">>,
      <<"r", "e", "t", "u", "r", "n", " ">>,
      <<"i", "f", " ", "_", "_", "n", "a", "m", "e", "_", "_">>,
      <<"a", "s", "y", "n", "c", " ", "d", "e", "f">>,
      <<"a", "w", "a", "i", "t", " ">> }
DetectCode(text) == \E ind \in CodeIndicators : Contains(text, ind)

\* BaseChunker._detect_chunk_type
RequirementMarkers ==
    { <<"M", "U", "S", "T">>, <<"S", "H", "A", "L", "L">>,
      <<"S", "H", "O", "U", "L", "D">>,
      <<"R", "E", "Q", "U", "I", "R", "E", "D">> }
ChecklistMarkers ==
    { <<"-", " ", "[", " ", "]">>, <<"-", " ", "[", "x", "]">>,
      <<"-", " ", "[", "X", "]">> }
MixedThreshold == 100
DetectChunkType(text) ==
    IF Contains(text, Fence) \/ DetectCode(text)
    THEN IF Len(Strip(SplitOn(text, Fence)[1])) > MixedThreshold
         THEN "mixed" ELSE "code"
    ELSE IF MatchesAt(Strip(text), 1, <<"#">>) THEN "section_header"
    ELSE IF \E m \in RequirementMarkers : Contains(Upper(text), m)
         THEN "requirement"
    ELSE IF \E m \in ChecklistMarkers : Contains(text, m) THEN "checklist"
    ELSE IF Contains(text, <<"|">>) /\ Contains(text, <<"-", "|", "-">>)
         THEN "table"
    ELSE "text"

\* Chunk and the ChunkMetadata fields the chunker computes (chunk_index,
\* total_chunks, has_code); a new chunk has no relationship field set.
NewChunk(content, chunk_type, token_count, chunk_index, total_chunks, has_code) ==
    [chunk_id |-> GenerateChunkId(content, chunk_index),
     content |-> content,
     chunk_type |-> chunk_type,
     token_count |-> token_count,
     overlap_prev |-> NoText,
     overlap_next |-> NoText,
     overlap_token_count |-> 0,
     prev_chunk_id |-> NoId,
     next_chunk_id |-> NoId,
     chunk_index |-> chunk_index,
     total_chunks |-> total_chunks,
     has_code |-> has_code]

\* The model of Chunk has no budget_exceeded field: models.py declares none
\* and no code path sets one.
BudgetExceeded(chunk) == FALSE

(***************************************************************************)
(* BaseChunker: plain-text chunking and the linking pass.                  *)
(***************************************************************************)
\* BaseChunker._simple_text_chunking
SimpleTextChunking(cfg, text) ==
    LET text_pieces ==
            SplitAtTokenLimit(text, cfg.max_tokens, cfg.overlap_tokens)
    IN [k \in 1..Len(text_pieces) |->
           NewChunk(text_pieces[k], DetectChunkType(text_pieces[k]),
                    Count(text_pieces[k]), k - 1, Len(text_pieces),
                    DetectCode(text_pieces[k]))]

\* seq[-k:] and seq[:k]
PyLast(s, k) == IF k = 0 THEN s ELSE PySlice(s, -k, Len(s))
PyFirst(s, k) == PySlice(s, 0, k)

\* "x or ''" for an optional text
OrEmpty(text) == IF text = NoText THEN <<>> ELSE text

\* Lines 129-147: the reference to the previous chunk and its trailing tokens
LinkPrevWithoutLengthTest(cfg, chunks, i) ==
    IF i > 1
    THEN LET prev_tokens == Encode(chunks[i - 1].content)
             overlap_tokens ==
                 Min(cfg.overlap_tokens, Count(chunks[i - 1].content))
         IN [prev_chunk_id |-> chunks[i - 1].chunk_id,
             overlap_prev |->
                 IF cfg.overlap_tokens > 0
                 THEN Decode(PyLast(prev_tokens, overlap_tokens))
                 ELSE chunks[i].overlap_prev]
    ELSE [prev_chunk_id |-> chunks[i].prev_chunk_id,
          overlap_prev |-> chunks[i].overlap_prev]
LinkPrev(cfg, chunks, i) ==
    IF i > 1
    THEN LET prev_tokens == Encode(chunks[i - 1].content)
             overlap_tokens ==
                 Min(cfg.overlap_tokens, Count(chunks[i - 1].content))
         IN [prev_chunk_id |-> chunks[i - 1].chunk_id,
             overlap_prev |->
                 IF cfg.overlap_tokens > 0 /\ Len(prev_tokens) > overlap_tokens
                 THEN Decode(PyLast(prev_tokens, overlap_tokens))
                 ELSE chunks[i].overlap_prev]
    ELSE [prev_chunk_id |-> chunks[i].prev_chunk_id,
          overlap_prev |-> chunks[i].overlap_prev]

\* Lines 150-168: the reference to the next chunk and its leading tokens
LinkNextTakesOwnTail(cfg, chunks, i) ==
    IF i < Len(chunks)
    THEN LET own_tokens == Encode(chunks[i].content)
             overlap_tokens ==
                 Min(cfg.overlap_tokens, Count(chunks[i].content))
         IN [next_chunk_id |-> chunks[i + 1].chunk_id,
             overlap_next |->
                 IF cfg.overlap_tokens > 0 /\ Len(own_tokens) > overlap_tokens
                 THEN Decode(PyLast(own_tokens, overlap_tokens))
                 ELSE chunks[i].overlap_next]
    ELSE [next_chunk_id |-> chunks[i].next_chunk_id,
          overlap_next |-> chunks[i].overlap_next]
LinkNext(cfg, chunks, i) ==
    IF i < Len(chunks)
    THEN LET next_tokens == Encode(chunks[i + 1].content)
             overlap_tokens ==
                 Min(cfg.overlap_tokens, Count(chunks[i + 1].content))
         IN [next_chunk_id |-> chunks[i + 1].chunk_id,
             overlap_next |->
                 IF cfg.overlap_tokens > 0 /\ Len(next_tokens) > overlap_tokens
                 THEN Decode(PyFirst(next_tokens, overlap_tokens))
                 ELSE chunks[i].overlap_next]
    ELSE [next_chunk_id |-> chunks[i].next_chunk_id,
          overlap_next |-> chunks[i].overlap_next]

\* BaseChunker._add_chunk_relationships: the pass reads of the other chunks
\* only chunk_id and content, which it never writes, so every chunk is
\* linked against the list as it was built.
AddChunkRelationshipsRecounting(cfg, chunks) ==
    [i \in 1..Len(chunks) |->
        LET p == LinkPrev(cfg, chunks, i)
            n == LinkNext(cfg, chunks, i)
        IN [chunks[i] EXCEPT
               !.prev_chunk_id = p.prev_chunk_id,
               !.overlap_prev = p.overlap_prev,
               !.next_chunk_id = n.next_chunk_id,
               !.overlap_next = n.overlap_next,
               !.overlap_token_count =
                   Count(OrEmpty(p.overlap_prev))
                   + Count(OrEmpty(n.overlap_next)),
               !.token_count =
                   @ + Count(OrEmpty(p.overlap_prev))
                     + Count(OrEmpty(n.overlap_next))]]
AddChunkRelationships(cfg, chunks) ==
    [i \in 1..Len(chunks) |->
        LET p == LinkPrev(cfg, chunks, i)
            n == LinkNext(cfg, chunks, i)
        IN [chunks[i] EXCEPT
               !.prev_chunk_id = p.prev_chunk_id,
               !.overlap_prev = p.overlap_prev,
               !.next_chunk_id = n.next_chunk_id,
               !.overlap_next = n.overlap_next,
               !.overlap_token_count =
                   Count(OrEmpty(p.overlap_prev))
                   + Count(OrEmpty(n.overlap_next))]]

\* BaseChunker.chunk_text
ChunkTextResult(cfg, text) ==
    AddChunkRelationships(cfg, SimpleTextChunking(cfg, text))

(***************************************************************************)
(* SemanticChunker (chunker/semantic_chunker.py).  The loops that build a  *)
(* chunk list carry an accumulator [chunks, buf, tokens]: the local list   *)
(* of chunks, the current buffer and the running token count.              *)
(***************************************************************************)
ParagraphBreak == <<"\n", "\n">>

\* SemanticChunker._create_text_chunk
CreateTextChunk(text_parts, chunk_index) ==
    LET content == Join(text_parts, ParagraphBreak) IN
    NewChunk(content, DetectChunkType(content), Count(content), chunk_index,
             0, DetectCode(content))

\* SemanticChunker._create_section_chunk
CreateSectionChunk(content, chunk_index) ==
    NewChunk(content,
             IF MatchesAt(content, 1, <<"#">>) THEN "section_header"
             ELSE DetectChunkType(content),
             Count(content), chunk_index, 0, DetectCode(content))

\* "if current_buffer: chunks.append(self._create_text_chunk(...)); reset"
FlushBufferIndexedFromStart(acc, start_index) ==
    IF acc.buf # <<>>
    THEN [chunks |-> Append(acc.chunks,
                            CreateTextChunk(acc.buf, start_index)),
          buf |-> <<>>, tokens |-> 0]
    ELSE acc
FlushBuffer(acc, start_index) ==
    IF acc.buf # <<>>
    THEN [chunks |-> Append(acc.chunks,
                            CreateTextChunk(acc.buf,
                                            start_index + Len(acc.chunks))),
          buf |-> <<>>, tokens |-> 0]
    ELSE acc

\* Lines 534-547: one word of an oversized sentence
WordStepSkipsOverlongWord(cfg, w, word, start_index) ==
    LET word_token_count == Count(word \o <<" ">>)
        f == IF /\ w.tokens + word_token_count > cfg.max_tokens
                /\ w.buf # <<>>
             THEN [chunks |-> Append(w.chunks,
                                     CreateTextChunk(
                                         <<Join(w.buf, <<" ">>)>>,
                                         start_index + Len(w.chunks))),
                   buf |-> <<>>, tokens |-> 0]
             ELSE w
    IN IF Count(word) > cfg.max_tokens THEN f
       ELSE [f EXCEPT !.buf = Append(@, word),
                      !.tokens = @ + word_token_count]
WordStep(cfg, w, word, start_index) ==
    LET word_token_count == Count(word \o <<" ">>)
        f == IF /\ w.tokens + word_token_count > cfg.max_tokens
                /\ w.buf # <<>>
             THEN [chunks |-> Append(w.chunks,
                                     CreateTextChunk(
                                         <<Join(w.buf, <<" ">>)>>,
                                         start_index + Len(w.chunks))),
                   buf |-> <<>>, tokens |-> 0]
             ELSE w
    IN [f EXCEPT !.buf = Append(@, word), !.tokens = @ + word_token_count]

RECURSIVE WordLoop(_, _, _, _)
WordLoop(cfg, w, words, start_index) ==
    IF words = <<>> THEN w
    ELSE WordLoop(cfg, WordStep(cfg, w, Head(words), start_index),
                  Tail(words), start_index)

\* Lines 513-557: one sentence of an oversized paragraph
SentenceStepKeepsCountAfterFlush(cfg, acc, sentence, start_index) ==
    LET sentence_tokens == Count(sentence) IN
    IF acc.tokens + sentence_tokens > cfg.max_tokens
    THEN LET f == FlushBuffer(acc, start_index) IN
         IF sentence_tokens > cfg.max_tokens
         THEN LET w == WordLoop(cfg,
                                [chunks |-> f.chunks, buf |-> <<>>,
                                 tokens |-> 0],
                                Words(sentence), start_index)
              IN IF w.buf # <<>>
                 THEN [chunks |-> w.chunks,
                       buf |-> <<Join(w.buf, <<" ">>)>>,
                       tokens |-> Count(Join(w.buf, <<" ">>))]
                 ELSE [chunks |-> w.chunks, buf |-> f.buf,
                       tokens |-> f.tokens]
         ELSE [f EXCEPT !.buf = Append(@, sentence),
                        !.tokens = acc.tokens + sentence_tokens]
    ELSE [acc EXCEPT !.buf = Append(@, sentence),
                     !.tokens = @ + sentence_tokens]
SentenceStep(cfg, acc, sentence, start_index) ==
    LET sentence_tokens == Count(sentence) IN
    IF acc.tokens + sentence_tokens > cfg.max_tokens
    THEN LET f == FlushBuffer(acc, start_index) IN
         IF sentence_tokens > cfg.max_tokens
         THEN LET w == WordLoop(cfg,
                                [chunks |-> f.chunks, buf |-> <<>>,
                                 tokens |-> 0],
                                Words(sentence), start_index)
              IN IF w.buf # <<>>
                 THEN [chunks |-> w.chunks,
                       buf |-> <<Join(w.buf, <<" ">>)>>,
                       tokens |-> Count(Join(w.buf, <<" ">>))]
                 ELSE [chunks |-> w.chunks, buf |-> f.buf,
                       tokens |-> f.tokens]
         ELSE [f EXCEPT !.buf = Append(@, sentence),
                        !.tokens = sentence_tokens]
    ELSE [acc EXCEPT !.buf = Append(@, sentence),
                     !.tokens = @ + sentence_tokens]

RECURSIVE SentenceLoop(_, _, _, _)
SentenceLoop(cfg, acc, sentences, start_index) ==
    IF sentences = <<>> THEN acc
    ELSE SentenceLoop(cfg,
                      SentenceStep(cfg, acc, Head(sentences), start_index),
                      Tail(sentences), start_index)

\* SemanticChunker._split_paragraph
SplitParagraph(cfg, paragraph, start_index) ==
    FlushBuffer(SentenceLoop(cfg,
                             [chunks |-> <<>>, buf |-> <<>>, tokens |-> 0],
                             SplitSentences(paragraph), start_index),
                start_index).chunks

\* Lines 207-238: one paragraph of a section
ParagraphStep(cfg, acc, para, start_index) ==
    LET para_tokens == Count(para) IN
    IF acc.tokens + para_tokens > cfg.max_tokens
    THEN LET f == FlushBuffer(acc, start_index) IN
         IF para_tokens > cfg.max_tokens
         THEN [f EXCEPT !.chunks =
                  @ \o SplitParagraph(cfg, para, start_index + Len(@))]
         ELSE [f EXCEPT !.buf = Append(@, para), !.tokens = para_tokens]
    ELSE [acc EXCEPT !.buf = Append(@, para), !.tokens = @ + para_tokens]

RECURSIVE ParagraphLoop(_, _, _, _)
ParagraphLoop(cfg, acc, paragraphs, start_index) ==
    IF paragraphs = <<>> THEN acc
    ELSE ParagraphLoop(cfg,
                       ParagraphStep(cfg, acc, Head(paragraphs), start_index),
                       Tail(paragraphs), start_index)

\* Lines 249-262: token-based splitting of a section
RECURSIVE TokenSplitChunks(_, _, _)
TokenSplitChunks(text_chunks, chunks, start_index) ==
    IF text_chunks = <<>> THEN chunks
    ELSE TokenSplitChunks(
             Tail(text_chunks),
             Append(chunks, CreateTextChunk(<<Head(text_chunks)>>,
                                            start_index + Len(chunks))),
             start_index)

\* SemanticChunker._process_section_content
ProcessSectionContent(cfg, content, start_index) ==
    IF cfg.respect_paragraph_boundaries
    THEN FlushBuffer(ParagraphLoop(cfg,
                                   [chunks |-> <<>>, buf |-> <<>>,
                                    tokens |-> 0],
                                   SplitOn(content, ParagraphBreak),
                                   start_index),
                     start_index).chunks
    ELSE TokenSplitChunks(
             SplitAtTokenLimit(content, cfg.max_tokens, cfg.overlap_tokens),
             <<>>, start_index)

\* Line 629: the room left for the fence markers
FenceMargin == 20

\* Lines 627-635: one line of an oversized code block
LineStep(cfg, acc, line) ==
    LET line_tokens == Count(line \o <<"\n">>)
        f == IF /\ acc.tokens + line_tokens > cfg.max_tokens - FenceMargin
                /\ acc.buf # <<>>
             THEN [parts |-> Append(acc.parts, Join(acc.buf, <<"\n">>)),
                   buf |-> <<>>, tokens |-> 0]
             ELSE acc
    IN [f EXCEPT !.buf = Append(@, line), !.tokens = @ + line_tokens]

RECURSIVE LineLoop(_, _, _)
LineLoop(cfg, acc, lines) ==
    IF lines = <<>> THEN acc
    ELSE LineLoop(cfg, LineStep(cfg, acc, Head(lines)), Tail(lines))

\* Lines 616-638: the parts of an oversized code block
CodeParts(cfg, code, language) ==
    IF Lower(language) \in {<<"p", "y", "t", "h", "o", "n">>, <<"p", "y">>}
    THEN SplitAtDeclarations(code)
    ELSE LET acc == LineLoop(cfg,
                             [parts |-> <<>>, buf |-> <<>>, tokens |-> 0],
                             SplitOn(code, <<"\n">>))
         IN IF acc.buf # <<>>
            THEN Append(acc.parts, Join(acc.buf, <<"\n">>))
            ELSE acc.parts

\* "```{language}\n{code}\n```"
Fenced(language, code) ==
    Fence \o language \o <<"\n">> \o code \o <<"\n">> \o Fence

\* SemanticChunker._split_large_code
SplitLargeCode(cfg, code, language, start_index) ==
    LET parts == CodeParts(cfg, code, language) IN
    [i \in 1..Len(parts) |->
        LET part_content == Fenced(language, parts[i]) IN
        NewChunk(part_content, "code", Count(part_content),
                 start_index + (i - 1), 0, TRUE)]

\* Lines 285-301: the example with its context
FullContent(example) ==
    Join((IF example.context_before # <<>>
          THEN <<example.context_before>> ELSE <<>>)
         \o <<Fence \o example.language, example.content, Fence>>
         \o (IF example.context_after # <<>>
             THEN <<example.context_after>> ELSE <<>>),
         <<"\n">>)

\* SemanticChunker._process_code_example
ProcessCodeExampleSplitsAtBudget(cfg, example, chunk_index) ==
    LET full_content == FullContent(example)
        content_tokens == Count(full_content)
        code_only == Fenced(example.language, example.content)
        code_tokens == Count(code_only)
    IN IF content_tokens < cfg.max_tokens
       THEN <<NewChunk(full_content, "code", content_tokens, chunk_index, 0,
                       TRUE)>>
       ELSE IF code_tokens < cfg.max_tokens
       THEN <<NewChunk(code_only, "code", code_tokens, chunk_index, 0, TRUE)>>
            \o (IF example.context_before # <<>>
                THEN <<CreateTextChunk(<<example.context_before>>,
                                       chunk_index + 1)>>
                ELSE <<>>)
       ELSE SplitLargeCode(cfg, example.content, example.language,
                           chunk_index)
ProcessCodeExample(cfg, example, chunk_index) ==
    LET full_content == FullContent(example)
        content_tokens == Count(full_content)
        code_only == Fenced(example.language, example.content)
        code_tokens == Count(code_only)
    IN IF content_tokens <= cfg.max_tokens
       THEN <<NewChunk(full_content, "code", content_tokens, chunk_index, 0,
                       TRUE)>>
       ELSE IF code_tokens <= cfg.max_tokens
       THEN <<NewChunk(code_only, "code", code_tokens, chunk_index, 0, TRUE)>>
            \o (IF example.context_before # <<>>
                THEN <<CreateTextChunk(<<example.context_before>>,
                                       chunk_index + 1)>>
                ELSE <<>>)
       ELSE SplitLargeCode(cfg, example.content, example.language,
                           chunk_index)

\* Lines 74-104: one section of an enhanced document
HeaderText(section) == <<"#", " ">> \o section.title \o <<"\n">>
SectionStep(cfg, acc, section) ==
    LET header_text == HeaderText(section)
        header_tokens == Count(header_text)
        f == IF /\ acc.buf # <<>>
                /\ acc.tokens + header_tokens > cfg.max_tokens
             THEN FlushBuffer(acc, 0)
             ELSE acc
        h == [f EXCEPT !.buf = Append(@, header_text),
                       !.tokens = @ + header_tokens]
    IN [h EXCEPT !.chunks =
            @ \o ProcessSectionContent(cfg, section.content, Len(@))]

RECURSIVE SectionLoop(_, _, _)
SectionLoop(cfg, acc, sections) ==
    IF sections = <<>> THEN acc
    ELSE SectionLoop(cfg, SectionStep(cfg, acc, Head(sections)),
                     Tail(sections))

\* Lines 107-114: the code examples
RECURSIVE ExampleLoop(_, _, _)
ExampleLoop(cfg, chunks, examples) ==
    IF examples = <<>> THEN chunks
    ELSE ExampleLoop(cfg,
                     chunks \o ProcessCodeExample(cfg, Head(examples),
                                                  Len(chunks)),
                     Tail(examples))

\* SemanticChunker._chunk_enhanced_document: the list built by lines 56-132
\* and the linking pass of line 135 over it
BuildEnhancedDocument(cfg, doc) ==
    LET acc == SectionLoop(cfg,
                           [chunks |-> <<>>, buf |-> <<>>, tokens |-> 0],
                           doc.sections)
        with_examples ==
            [acc EXCEPT !.chunks = ExampleLoop(cfg, @, doc.full_examples)]
    IN FlushBuffer(with_examples, 0).chunks

ChunkEnhancedDocument(cfg, doc) ==
    AddChunkRelationships(cfg, BuildEnhancedDocument(cfg, doc))

\* Lines 149-176: one section of a document that has only sections
RECURSIVE PlainSectionLoop(_, _, _)
PlainSectionLoop(cfg, chunks, sections) ==
    IF sections = <<>> THEN chunks
    ELSE LET section_text == Head(sections).content IN
         PlainSectionLoop(
             cfg,
             IF Count(section_text) <= cfg.max_tokens
             THEN Append(chunks, CreateSectionChunk(section_text, Len(chunks)))
             ELSE chunks \o ProcessSectionContent(cfg, section_text,
                                                  Len(chunks)),
             Tail(sections))

\* SemanticChunker._chunk_sectioned_document
ChunkSectionedDocument(cfg, doc) ==
    AddChunkRelationships(cfg, PlainSectionLoop(cfg, <<>>, doc.sections))

(***************************************************************************)
(* The chunker as a state machine: a SemanticChunker is constructed with a *)
(* config that validate_config accepts and one of its entry points is      *)
(* called.  A call's result is a function of the config and the argument,  *)
(* so a behaviour holds one call.                                          *)
(***************************************************************************)
MaxTokens == 11
MaxOverlap == 1
MaxSections == 2
MaxExamples == 1

\* ChunkingConfig.validate_config
ValidConfigOverlapMayEqualMax(cfg) ==
    /\ ~(cfg.overlap_tokens > cfg.max_tokens)
    /\ ~(cfg.min_chunk_tokens > cfg.max_tokens)
ValidConfig(cfg) ==
    /\ ~(cfg.overlap_tokens >= cfg.max_tokens)
    /\ ~(cfg.min_chunk_tokens > cfg.max_tokens)

Configs ==
    {cfg \in [max_tokens : 1..MaxTokens, overlap_tokens : 0..MaxOverlap,
              min_chunk_tokens : {1},
              respect_paragraph_boundaries : BOOLEAN] : ValidConfig(cfg)}

\* Sections (MarkdownSection: title, content) the documents are made of.
\* content "a"
SectionShort == [title |-> <<"t">>, content |-> <<"a">>]
\* content "a b. b a\n\nb"
SectionSentences ==
    [title |-> <<"t">>,
     content |-> <<"a", " ", "b", ".", " ", "b", " ", "a", "\n", "\n", "b">>]
\* content "ababab b\n\na"
SectionLongWord ==
    [title |-> <<"u">>,
     content |-> <<"a", "b", "a", "b", "a", "b", " ", "b", "\n", "\n", "a">>]
SectionPool == {SectionShort, SectionSentences, SectionLongWord}

\* Code examples (FullCodeExample: language, content, context_before,
\* context_after).
\* x / ```py\na\n``` / z
ExampleWithContext ==
    [language |-> <<"p", "y">>, content |-> <<"a">>,
     context_before |-> <<"x">>, context_after |-> <<"z">>]
\* ```py\nx\ndef f\ny\n```
ExampleDeclarations ==
    [language |-> <<"p", "y">>,
     content |-> <<"x", "\n", "d", "e", "f", " ", "f", "\n", "y">>,
     context_before |-> <<>>, context_after |-> <<>>]
\* ```\na\nb\n```
ExampleLines ==
    [language |-> <<>>, content |-> <<"a", "\n", "b">>,
     context_before |-> <<>>, context_after |-> <<>>]
ExamplePool == {ExampleWithContext, ExampleDeclarations, ExampleLines}

SeqsUpTo(S, n) == UNION {[1..k -> S] : k \in 0..n}

\* Documents with full_examples (FullEnhancedDoc) and documents with
\* sections only (MarkdownDoc).
EnhancedDocs ==
    [sections : SeqsUpTo(SectionPool, MaxSections),
     full_examples : SeqsUpTo(ExamplePool, MaxExamples)]
SectionedDocs ==
    [sections : SeqsUpTo(SectionPool, MaxSections), full_examples : {<<>>}]

\* BaseChunker.chunk_text
ChunkText(text) ==
    /\ entry.kind = "none"
    /\ entry' = [kind |-> "chunk_text", text |-> text, doc |-> EmptyDoc]
    /\ returned' = ChunkTextResult(config, text)
    /\ UNCHANGED config
    /\ UNCHANGED <<splitVars, chunker, counterVars, enricher,
                   previous, store>>

\* SemanticChunker.chunk, line 44-46: the document has full_examples
ChunkEnhanced(doc) ==
    /\ entry.kind = "none"
    /\ entry' = [kind |-> "enhanced", text |-> <<>>, doc |-> doc]
    /\ returned' = ChunkEnhancedDocument(config, doc)
    /\ UNCHANGED config
    /\ UNCHANGED <<splitVars, chunker, counterVars, enricher,
                   previous, store>>

\* SemanticChunker.chunk, line 47-49: the document has sections only
ChunkSectioned(doc) ==
    /\ entry.kind = "none"
    /\ entry' = [kind |-> "sectioned", text |-> <<>>, doc |-> doc]
    /\ returned' = ChunkSectionedDocument(config, doc)
    /\ UNCHANGED config
    /\ UNCHANGED <<splitVars, chunker, counterVars, enricher,
                   previous, store>>

ChunkerInit ==
    /\ config \in Configs
    /\ entry = NoEntry
    /\ returned = <<>>
    /\ split = SplitEnter(<<>>, DefaultMaxTokens, 0)
    /\ requested = 0
    /\ last = [valid |-> FALSE, overlap_tokens |-> 0, chunks |-> <<>>]
    /\ chunker = Constructed
    /\ cache = EmptyCache
    /\ calls = NoCalls
    /\ enricher = IdleEnricher
    /\ previous = NoPreviousRun
    /\ store = EmptyStore

ChunkerNext ==
    \/ \E text \in TextsUpTo(MaxTextLen) : ChunkText(text)
    \/ \E doc \in EnhancedDocs : ChunkEnhanced(doc)
    \/ \E doc \in SectionedDocs : ChunkSectioned(doc)

ChunkerSpec == ChunkerInit /\ [][ChunkerNext]_vars

(***************************************************************************)
(* Documents that consist of one code example, among them Python code of   *)
(* several lines without a top-level declaration.                          *)
(***************************************************************************)
\* ```py\na\nb\n```
ExamplePythonLines ==
    [language |-> <<"p", "y">>, content |-> <<"a", "\n", "b">>,
     context_before |-> <<>>, context_after |-> <<>>]

CodeDocs ==
    [sections : {<<>>},
     full_examples : {<<ex>> : ex \in ExamplePool \cup {ExamplePythonLines}}]

CodeNext == \E doc \in CodeDocs : ChunkEnhanced(doc)

CodeSpec == ChunkerInit /\ [][CodeNext]_vars

(***************************************************************************)
(* Construction: BaseChunker.__init__ is handed any config, validates it   *)
(* (line 39) and only then creates the TokenCounter (line 40).  An entry   *)
(* point can be called on a chunker whose constructor returned.            *)
(***************************************************************************)
RequestedConfigs ==
    [max_tokens : 0..MaxBudget, overlap_tokens : 0..(MaxBudget + 1),
     min_chunk_tokens : 0..(MaxBudget + 1),
     respect_paragraph_boundaries : BOOLEAN]

\* line 39: self.config.validate_config() returns True or raises ValueError
ValidateConfig ==
    /\ chunker.pc = "new"
    /\ chunker' = [chunker EXCEPT
                      !.pc = IF ValidConfig(config) THEN "validated"
                                                    ELSE "raised"]
    /\ UNCHANGED <<chunkerVars, splitVars, counterVars, enricher, previous, store>>

\* lines 40-41: self.token_counter = TokenCounter(...)
CreateTokenCounter ==
    /\ chunker.pc = "validated"
    /\ chunker' = Constructed
    /\ UNCHANGED <<chunkerVars, splitVars, counterVars, enricher, previous, store>>

ConstructInit ==
    /\ config \in RequestedConfigs
    /\ chunker = NotConstructed
    /\ entry = NoEntry
    /\ returned = <<>>
    /\ split = SplitEnter(<<>>, DefaultMaxTokens, 0)
    /\ requested = 0
    /\ last = [valid |-> FALSE, overlap_tokens |-> 0, chunks |-> <<>>]
    /\ cache = EmptyCache
    /\ calls = NoCalls
    /\ enricher = IdleEnricher
    /\ previous = NoPreviousRun
    /\ store = EmptyStore

ConstructNext ==
    \/ ValidateConfig
    \/ CreateTokenCounter
    \/ \E text \in TextsUpTo(MaxTextLen) :
          chunker.pc = "ready" /\ ChunkText(text)
    \/ \E doc \in SectionedDocs : chunker.pc = "ready" /\ ChunkSectioned(doc)

ConstructSpec == ConstructInit /\ [][ConstructNext]_vars

(***************************************************************************)
(* The same call made a second time, on the same chunker or on one         *)
(* constructed anew with the same config.  A chunker keeps nothing between *)
(* calls but its token count cache, which holds counts only.               *)
(***************************************************************************)
ChunkIds(chunks) == [i \in 1..Len(chunks) |-> chunks[i].chunk_id]

\* What the entry point last called returns for its argument.
CallResult(cfg, call) ==
    CASE call.kind = "chunk_text" -> ChunkTextResult(cfg, call.text)
      [] call.kind = "enhanced" -> ChunkEnhancedDocument(cfg, call.doc)
      [] call.kind = "sectioned" -> ChunkSectionedDocument(cfg, call.doc)
      [] OTHER -> <<>>

RepeatOnSameInstance ==
    /\ entry.kind # "none"
    /\ ~previous.valid
    /\ previous' = [valid |-> TRUE, fresh |-> FALSE, ids |-> ChunkIds(returned)]
    /\ returned' = CallResult(config, entry)
    /\ UNCHANGED <<config, entry, chunker, splitVars, counterVars, enricher, store>>

RepeatOnFreshInstance ==
    /\ entry.kind # "none"
    /\ ~previous.valid
    /\ previous' = [valid |-> TRUE, fresh |-> TRUE, ids |-> ChunkIds(returned)]
    /\ chunker' = Constructed
    /\ cache' = EmptyCache
    /\ returned' = CallResult(config, entry)
    /\ UNCHANGED <<config, entry, calls, splitVars, enricher, store>>

RepeatNext ==
    \/ \E text \in TextsUpTo(MaxTextLen) : ChunkText(text)
    \/ \E doc \in SectionedDocs : ChunkSectioned(doc)
    \/ RepeatOnSameInstance
    \/ RepeatOnFreshInstance

RepeatSpec == ChunkerInit /\ [][RepeatNext]_vars

(***************************************************************************)
(* FullEnhancedEnricher._split_multi_example_block                         *)
(* (full_enhanced_enricher.py): a code block is cut at the lines that      *)
(* carry a good or a bad pattern marker.                                   *)
(*                                                                         *)
(* A pattern is a regular expression of literal characters, \s* and \s+,   *)
(* anchored at the start of the text or not, searched with re.IGNORECASE:  *)
(* its literals are written in upper case and compared with the upper-     *)
(* cased text.  The lists hold the patterns that the lines of the model    *)
(* can match, in the order of the source.                                  *)
(***************************************************************************)
AnySpaces == "\\s*"
SomeSpaces == "\\s+"

RECURSIVE MatchHere(_, _, _)
MatchHere(elems, text, i) ==
    IF elems = <<>> THEN TRUE
    ELSE IF Head(elems) \in {AnySpaces, SomeSpaces}
    THEN \E j \in i..(Len(text) + 1) :
            /\ \A k \in i..(j - 1) : text[k] \in Whitespace
            /\ Head(elems) = SomeSpaces => j > i
            /\ MatchHere(Tail(elems), text, j)
    ELSE /\ i <= Len(text)
         /\ Upper(<<text[i]>>) = <<Head(elems)>>
         /\ MatchHere(Tail(elems), text, i + 1)

\* re.search(pattern, text, re.IGNORECASE)
Search(pattern, text) ==
    IF pattern.anchored THEN MatchHere(pattern.elems, text, 1)
    ELSE \E i \in 1..(Len(text) + 1) : MatchHere(pattern.elems, text, i)

\* #\s*GOOD:  and  good\s+example
ENHANCED_GOOD_PATTERNS ==
    <<[anchored |-> FALSE, elems |-> <<"#", AnySpaces, "G", "O", "O", "D", ":">>],
      [anchored |-> FALSE,
       elems |-> <<"G", "O", "O", "D", SomeSpaces,
                   "E", "X", "A", "M", "P", "L", "E">>]>>

\* #\s*BAD:  and  ^X\s  and  bad\s+example
ENHANCED_BAD_PATTERNS ==
    <<[anchored |-> FALSE, elems |-> <<"#", AnySpaces, "B", "A", "D", ":">>],
      [anchored |-> TRUE, elems |-> <<"X", SomeSpaces>>],
      [anchored |-> FALSE,
       elems |-> <<"B", "A", "D", SomeSpaces,
                   "E", "X", "A", "M", "P", "L", "E">>]>>

\* #\s*Before:  and  #\s*After:
COMPARISON_PATTERNS ==
    <<[anchored |-> FALSE,
       elems |-> <<"#", AnySpaces, "B", "E", "F", "O", "R", "E", ":">>],
      [anchored |-> FALSE,
       elems |-> <<"#", AnySpaces, "A", "F", "T", "E", "R", ":">>]>>

\* FullEnhancedEnricher._check_patterns
CheckPatterns(text, patterns) ==
    SelectSeq(patterns, LAMBDA pattern : Search(pattern, text))

ExampleWords ==
    {<<"e", "x", "a", "m", "p", "l", "e">>, <<"s", "a", "m", "p", "l", "e">>,
     <<"d", "e", "m", "o">>, <<"s", "n", "i", "p", "p", "e", "t">>}

\* FullEnhancedEnricher._comprehensive_pattern_detection
ComprehensivePatternDetection(content, context_before, context_after) ==
    LET all_text == context_before \o <<"\n">> \o content \o <<"\n">>
                    \o context_after
        good_matches == CheckPatterns(all_text, ENHANCED_GOOD_PATTERNS)
        bad_matches == CheckPatterns(all_text, ENHANCED_BAD_PATTERNS)
        comparison_matches == CheckPatterns(all_text, COMPARISON_PATTERNS)
        markers_found == good_matches \o bad_matches \o comparison_matches
    IN IF good_matches # <<>> /\ bad_matches # <<>>
       THEN [example_type |-> "comparison", markers |-> markers_found]
       ELSE IF good_matches # <<>>
       THEN [example_type |-> "good", markers |-> markers_found]
       ELSE IF bad_matches # <<>>
       THEN [example_type |-> "bad", markers |-> markers_found]
       ELSE IF comparison_matches # <<>>
       THEN [example_type |-> "comparison", markers |-> markers_found]
       ELSE IF \E word \in ExampleWords : Contains(Lower(all_text), word)
       THEN [example_type |-> "neutral",
             markers |-> <<"example context">>]
       ELSE [example_type |-> "neutral", markers |-> <<>>]

\* FullEnhancedEnricher._create_example
CreateExample(lines, example_type, markers, is_split) ==
    [content |-> Join(lines, <<"\n">>), example_type |-> example_type,
     pattern_markers |-> markers, is_split |-> is_split]

\* Lines 259-270, 277-288, 298-308: the open sub-unit is saved if it has
\* lines and a type.
SaveCurrentNever(st) == st
SaveCurrent(st) ==
    IF st.current_lines # <<>> /\ st.current_type # "None"
    THEN [st EXCEPT !.examples =
             Append(@, CreateExample(st.current_lines, st.current_type,
                                     st.current_markers, TRUE))]
    ELSE st

\* Lines 271-273 and 289-291: a marker line opens a sub-unit.
StartExample(st, line, example_type, markers) ==
    [st EXCEPT !.current_lines = <<line>>, !.current_type = example_type,
               !.current_markers = markers, !.lines = Tail(@)]

\* Lines 311-326: a block without a sub-unit is returned whole.
WholeBlock(st) ==
    IF st.examples = <<>>
    THEN LET detected == ComprehensivePatternDetection(st.content, <<>>, <<>>)
         IN [st EXCEPT !.examples =
                <<CreateExample(<<st.content>>, detected.example_type,
                                detected.markers, FALSE)>>]
    ELSE st

\* The lines of the blocks of the model.
LineGood == <<"#", " ", "G", "O", "O", "D", ":">>
LineBad == <<"#", "b", "a", "d", ":">>
LineGoodAndBad ==
    <<"#", " ", "g", "o", "o", "d", ":", " ", "b", "a", "d", " ", "e", "x", "a", "m", "p", "l", "e">>
LineBadAtStart == <<"X", " ", "y">>
LinePlain == <<"y">>
LinePool == {LineGood, LineBad, LineGoodAndBad, LineBadAtStart, LinePlain, <<>>}

BlockContents ==
    {Join(lines, <<"\n">>) :
        lines \in UNION {[1..n -> LinePool] : n \in 1..MaxBlockLines}}

\* Line 252-273: the next line carries a good marker.
SplitLineGood ==
    /\ enricher.pc = "loop"
    /\ enricher.lines # <<>>
    /\ LET line == Head(enricher.lines)
           good_match == CheckPatterns(line, ENHANCED_GOOD_PATTERNS)
       IN /\ good_match # <<>>
          /\ enricher' = StartExample(SaveCurrent(enricher), line, "good",
                                      good_match)
    /\ UNCHANGED <<splitVars, chunkerVars, chunker, counterVars, previous, store>>

\* Line 275-291: the next line carries a bad marker and no good one.
SplitLineBad ==
    /\ enricher.pc = "loop"
    /\ enricher.lines # <<>>
    /\ LET line == Head(enricher.lines)
           good_match == CheckPatterns(line, ENHANCED_GOOD_PATTERNS)
           bad_match == CheckPatterns(line, ENHANCED_BAD_PATTERNS)
       IN /\ good_match = <<>>
          /\ bad_match # <<>>
          /\ enricher' = StartExample(SaveCurrent(enricher), line, "bad",
                                      bad_match)
    /\ UNCHANGED <<splitVars, chunkerVars, chunker, counterVars, previous, store>>

\* Line 293-295: the next line carries no marker.
SplitLineContinue ==
    /\ enricher.pc = "loop"
    /\ enricher.lines # <<>>
    /\ LET line == Head(enricher.lines) IN
       /\ CheckPatterns(line, ENHANCED_GOOD_PATTERNS) = <<>>
       /\ CheckPatterns(line, ENHANCED_BAD_PATTERNS) = <<>>
       /\ enricher' = [enricher EXCEPT !.current_lines = Append(@, line),
                                       !.lines = Tail(@)]
    /\ UNCHANGED <<splitVars, chunkerVars, chunker, counterVars, previous, store>>

\* Lines 297-328: after the last line
SplitBlockReturn ==
    /\ enricher.pc = "loop"
    /\ enricher.lines = <<>>
    /\ enricher' = [WholeBlock(SaveCurrent(enricher)) EXCEPT !.pc = "done"]
    /\ UNCHANGED <<splitVars, chunkerVars, chunker, counterVars, previous, store>>

\* Lines 246-250
EnricherInit ==
    /\ \E content \in BlockContents :
          enricher = [pc |-> "loop", content |-> content,
                      lines |-> SplitOn(content, <<"\n">>),
                      examples |-> <<>>, current_lines |-> <<>>,
                      current_type |-> "None", current_markers |-> <<>>]
    /\ config = DefaultConfig
    /\ entry = NoEntry
    /\ returned = <<>>
    /\ chunker = NotConstructed
    /\ split = SplitEnter(<<>>, DefaultMaxTokens, 0)
    /\ requested = 0
    /\ last = [valid |-> FALSE, overlap_tokens |-> 0, chunks |-> <<>>]
    /\ cache = EmptyCache
    /\ calls = NoCalls
    /\ previous = NoPreviousRun
    /\ store = EmptyStore

EnricherNext ==
    \/ SplitLineGood
    \/ SplitLineBad
    \/ SplitLineContinue
    \/ SplitBlockReturn

EnricherSpec == EnricherInit /\ [][EnricherNext]_vars

(***************************************************************************)
(* TokenCounter.count and its cache (token_counter.py, lines 24-45).  The  *)
(* cache is a dict keyed by hash(text); it is modelled as the sequence of  *)
(* its (key, count) items in insertion order.  The source evicts down to   *)
(* the last 5000 items when the cache has grown beyond 10000; CacheLimit   *)
(* and CacheKept stand for these two numbers.                              *)
(*                                                                         *)
(* hash() of a str is a 64-bit value of the whole text, so among the       *)
(* unbounded texts distinct texts with the same hash exist; PyHash has     *)
(* PyHashValues values so that such texts occur among the texts counted    *)
(* here.                                                                   *)
(*                                                                         *)
(* A call is a sequence of steps, one per statement of count; the steps of *)
(* calls running on different workers interleave.                          *)
(***************************************************************************)
PyHashValues == 5
RECURSIVE PyHash(_)
PyHash(text) ==
    IF text = <<>> THEN 0
    ELSE (PyHash(SubSeq(text, 1, Len(text) - 1)) * 31
          + CharCode(text[Len(text)])) % PyHashValues

\* Texts counted on one worker, and texts with pairwise different hashes
\* counted on a counter that workers share.
CountedTexts == TextsUpTo(MaxCountedLen)
SharedTexts == {<<>>, <<"a">>, <<"b">>, <<"a", "b">>}

\* cache_key in self._cache
InCache(items, cache_key) ==
    \E i \in 1..Len(items) : items[i].key = cache_key

\* self._cache[cache_key] = n: a new key goes to the end, a known key keeps
\* its place.
CacheStore(items, cache_key, n) ==
    IF InCache(items, cache_key)
    THEN [i \in 1..Len(items) |->
             IF items[i].key = cache_key THEN [key |-> cache_key, count |-> n]
             ELSE items[i]]
    ELSE Append(items, [key |-> cache_key, count |-> n])

\* self._cache[cache_key]
CacheLookup(items, cache_key) ==
    LET i == CHOOSE i \in 1..Len(items) : items[i].key = cache_key IN
    items[i].count

\* Lines 41-43: dict(list(self._cache.items())[-5000:]) when over the limit
EvictKeepsOldest(items) ==
    IF Len(items) > CacheLimit
    THEN SubSeq(items, 1, CacheKept)
    ELSE items
Evict(items) ==
    IF Len(items) > CacheLimit
    THEN SubSeq(items, Len(items) - CacheKept + 1, Len(items))
    ELSE items

\* Line 34: cache_key = hash(text)
CountCall(w, text) ==
    /\ calls[w].pc \in {"idle", "done", "raised"}
    /\ calls' = [calls EXCEPT ![w] = [pc |-> "check", text |-> text,
                                      cache_key |-> PyHash(text),
                                      result |-> 0, evicted |-> FALSE]]
    /\ UNCHANGED <<cache, splitVars, chunkerVars, chunker, enricher, previous, store>>

\* Line 36: if cache_key not in self._cache
CountCheck(w) ==
    /\ calls[w].pc = "check"
    /\ calls' = [calls EXCEPT ![w].pc =
                    IF InCache(cache, calls[w].cache_key) THEN "return"
                    ELSE "store"]
    /\ UNCHANGED <<cache, splitVars, chunkerVars, chunker, enricher, previous, store>>

\* Lines 37-38: the text is encoded and its token count stored
CountStore(w) ==
    /\ calls[w].pc = "store"
    /\ cache' = CacheStore(cache, calls[w].cache_key, Count(calls[w].text))
    /\ calls' = [calls EXCEPT ![w].pc = "limit"]
    /\ UNCHANGED <<splitVars, chunkerVars, chunker, enricher, previous, store>>

\* Lines 41-43: the cache is replaced by its last items when over the limit
CountLimit(w) ==
    /\ calls[w].pc = "limit"
    /\ cache' = Evict(cache)
    /\ calls' = [calls EXCEPT ![w].pc = "return",
                              ![w].evicted = Len(cache) > CacheLimit]
    /\ UNCHANGED <<splitVars, chunkerVars, chunker, enricher, previous, store>>

\* Line 45: return self._cache[cache_key], a KeyError if the key is gone
CountReturn(w) ==
    /\ calls[w].pc = "return"
    /\ calls' = [calls EXCEPT ![w] =
                    IF InCache(cache, calls[w].cache_key)
                    THEN [calls[w] EXCEPT
                             !.pc = "done",
                             !.result = CacheLookup(cache, calls[w].cache_key)]
                    ELSE [calls[w] EXCEPT !.pc = "raised"]]
    /\ UNCHANGED <<cache, splitVars, chunkerVars, chunker, enricher, previous, store>>

\* TokenCounter.clear_cache, called between two calls of count
ClearCache ==
    /\ \A w \in Workers : calls[w].pc \in {"idle", "done", "raised"}
    /\ cache' = EmptyCache
    /\ UNCHANGED <<calls, splitVars, chunkerVars, chunker, enricher, previous, store>>

CounterInit ==
    /\ cache = EmptyCache
    /\ calls = NoCalls
    /\ config = DefaultConfig
    /\ entry = NoEntry
    /\ returned = <<>>
    /\ chunker = NotConstructed
    /\ split = SplitEnter(<<>>, DefaultMaxTokens, 0)
    /\ requested = 0
    /\ last = [valid |-> FALSE, overlap_tokens |-> 0, chunks |-> <<>>]
    /\ enricher = IdleEnricher
    /\ previous = NoPreviousRun
    /\ store = EmptyStore

\* One worker calls count and clear_cache again and again.
CounterNext ==
    \/ ClearCache
    \/ \E text \in CountedTexts : CountCall(1, text)
    \/ CountCheck(1)
    \/ CountStore(1)
    \/ CountLimit(1)
    \/ CountReturn(1)

CounterSpec == CounterInit /\ [][CounterNext]_vars

\* The workers call count on one counter.
SharedCounterNext ==
    \/ \E w \in Workers, text \in SharedTexts : CountCall(w, text)
    \/ \E w \in Workers : CountCheck(w)
    \/ \E w \in Workers : CountStore(w)
    \/ \E w \in Workers : CountLimit(w)
    \/ \E w \in Workers : CountReturn(w)

SharedCounterSpec == CounterInit /\ [][SharedCounterNext]_vars

(***************************************************************************)
(* One chunker instance chunking one document after another               *)
(* (BaseChunker.chunk_text).  The instance keeps its TokenCounter, created *)
(* once in __init__ (base_chunker.py, line 40), and with it the cache of   *)
(* count: every self.token_counter.count of a call goes through the cache  *)
(* the earlier calls left behind.  split_at_token_limit, encode and decode *)
(* do not use the cache.                                                   *)
(***************************************************************************)
\* TokenCounter.count run from line 34 to line 45 by one worker: the cache
\* after the call and the count returned.
CountOn(items, text) ==
    LET cache_key == PyHash(text)
        stored == IF InCache(items, cache_key) THEN items
                  ELSE Evict(CacheStore(items, cache_key, Count(text)))
    IN [cache |-> stored, n |-> CacheLookup(stored, cache_key)]

\* BaseChunker._simple_text_chunking, the loop of lines 93-114
RECURSIVE BuildChunksOn(_, _, _, _)
BuildChunksOn(text_pieces, k, items, chunks) ==
    IF k > Len(text_pieces) THEN [chunks |-> chunks, cache |-> items]
    ELSE LET piece == text_pieces[k]
             c == CountOn(items, piece)
         IN BuildChunksOn(text_pieces, k + 1, c.cache,
                Append(chunks,
                       NewChunk(piece, DetectChunkType(piece), c.n, k - 1,
                                Len(text_pieces), DetectCode(piece))))

\* BaseChunker._add_chunk_relationships, one iteration of the loop of line
\* 127: the counts of lines 138, 159, 171 and 172 in the order they are made.
LinkChunkOn(cfg, chunks, i, items) ==
    LET has_prev == i > 1 /\ cfg.overlap_tokens > 0
        c_prev == IF has_prev THEN CountOn(items, chunks[i - 1].content)
                  ELSE [cache |-> items, n |-> 0]
        k_prev == Min(cfg.overlap_tokens, c_prev.n)
        overlap_prev ==
            IF has_prev /\ Len(Encode(chunks[i - 1].content)) > k_prev
            THEN Decode(PyLast(Encode(chunks[i - 1].content), k_prev))
            ELSE chunks[i].overlap_prev
        has_next == i < Len(chunks) /\ cfg.overlap_tokens > 0
        c_next == IF has_next
                  THEN CountOn(c_prev.cache, chunks[i + 1].content)
                  ELSE [cache |-> c_prev.cache, n |-> 0]
        k_next == Min(cfg.overlap_tokens, c_next.n)
        overlap_next ==
            IF has_next /\ Len(Encode(chunks[i + 1].content)) > k_next
            THEN Decode(PyFirst(Encode(chunks[i + 1].content), k_next))
            ELSE chunks[i].overlap_next
        c_op == CountOn(c_next.cache, OrEmpty(overlap_prev))
        c_on == CountOn(c_op.cache, OrEmpty(overlap_next))
    IN [chunk |->
           [chunks[i] EXCEPT
               !.prev_chunk_id = IF i > 1 THEN chunks[i - 1].chunk_id ELSE @,
               !.overlap_prev = overlap_prev,
               !.next_chunk_id =
                   IF i < Len(chunks) THEN chunks[i + 1].chunk_id ELSE @,
               !.overlap_next = overlap_next,
               !.overlap_token_count = c_op.n + c_on.n],
        cache |-> c_on.cache]

RECURSIVE LinkChunksOn(_, _, _, _, _)
LinkChunksOn(cfg, chunks, i, items, linked) ==
    IF i > Len(chunks) THEN [chunks |-> linked, cache |-> items]
    ELSE LET l == LinkChunkOn(cfg, chunks, i, items) IN
         LinkChunksOn(cfg, chunks, i + 1, l.cache, Append(linked, l.chunk))

\* BaseChunker.chunk_text on an instance whose cache holds items
ChunkTextOn(cfg, text, items) ==
    LET built == BuildChunksOn(
                     SplitAtTokenLimit(text, cfg.max_tokens,
                                       cfg.overlap_tokens),
                     1, items, <<>>)
    IN LinkChunksOn(cfg, built.chunks, 1, built.cache, <<>>)

\* chunk_text is called on the instance, whatever it chunked before.
ChunkNextDocument(text) ==
    /\ entry' = [kind |-> "chunk_text", text |-> text, doc |-> EmptyDoc]
    /\ returned' = ChunkTextOn(config, text, cache).chunks
    /\ cache' = ChunkTextOn(config, text, cache).cache
    /\ UNCHANGED <<config, calls, splitVars, chunker, enricher, previous, store>>

DocumentsNext == \E text \in CountedTexts : ChunkNextDocument(text)

DocumentsSpec == ChunkerInit /\ [][DocumentsNext]_vars

(***************************************************************************)
(* FAISSVectorStore (vector_store/faiss_store.py): the bookkeeping around  *)
(* the FAISS index.  The index itself only grows: index.add appends the    *)
(* vectors at the positions ntotal, ntotal + 1, ... and nothing removes a  *)
(* vector but clear, which builds a new index.  A dictionary is a function *)
(* on its key set.                                                         *)
(***************************************************************************)
MaxAdds == 3

\* d[k] = v and del d[k]
Put(d, k, v) == [x \in DOMAIN d \cup {k} |-> IF x = k THEN v ELSE d[x]]
Remove(d, k) == [x \in DOMAIN d \ {k} |-> d[x]]

\* Ids the caller supplies and ids _generate_id makes (uuid4: a new one on
\* every call).
SuppliedIds == {"x", "y"}
GeneratedIds == <<"u1", "u2", "u3", "u4", "u5", "u6">>

\* Lines 144-157 (add) and lines 209-217 (add_batch): one vector enters the
\* index and the mappings
StoreVector(st, vector_id) ==
    [st EXCEPT !.ntotal = @ + 1,
               !.id_to_idx = Put(@, vector_id, st.next_idx),
               !.idx_to_id = Put(@, st.next_idx, vector_id),
               !.next_idx = @ + 1,
               !.metadata_store = Put(@, vector_id, <<>>),
               !.added = @ + 1,
               !.deleted = @ \ {vector_id}]

RECURSIVE StoreVectors(_, _)
StoreVectors(st, ids) ==
    IF ids = <<>> THEN st
    ELSE StoreVectors(StoreVector(st, Head(ids)), Tail(ids))

\* FAISSVectorStore.add with a vector_id of the caller
StoreAdd(vector_id) ==
    /\ store.added < MaxAdds
    /\ store' = StoreVector(store, vector_id)
    /\ UNCHANGED <<splitVars, chunkerVars, chunker, counterVars, enricher, previous>>

\* FAISSVectorStore.add with vector_id None: line 134 generates the id
StoreAddGenerated ==
    /\ store.added < MaxAdds
    /\ store' = StoreVector(store, GeneratedIds[store.added + 1])
    /\ UNCHANGED <<splitVars, chunkerVars, chunker, counterVars, enricher, previous>>

\* FAISSVectorStore.add_batch of two vectors with the caller's ids
StoreAddBatch(ids) ==
    /\ store.added + Len(ids) <= MaxAdds
    /\ store' = StoreVectors(store, ids)
    /\ UNCHANGED <<splitVars, chunkerVars, chunker, counterVars, enricher, previous>>

\* FAISSVectorStore.delete: False and no change for an id that is not
\* stored
StoreDelete(vector_id) ==
    /\ store' =
          IF vector_id \notin DOMAIN store.id_to_idx THEN store
          ELSE [store EXCEPT
                   !.id_to_idx = Remove(@, vector_id),
                   !.idx_to_id = Remove(@, store.id_to_idx[vector_id]),
                   !.metadata_store = Remove(@, vector_id),
                   !.deleted = @ \cup {vector_id}]
    /\ UNCHANGED <<splitVars, chunkerVars, chunker, counterVars, enricher, previous>>

\* FAISSVectorStore.clear
StoreClear ==
    /\ store' = [store EXCEPT !.id_to_idx = <<>>, !.idx_to_id = <<>>,
                              !.metadata_store = <<>>, !.next_idx = 0,
                              !.ntotal = 0]
    /\ UNCHANGED <<splitVars, chunkerVars, chunker, counterVars, enricher, previous>>

\* FAISSVectorStore.search with k = index.ntotal on a Flat index: every
\* position of the index comes back, and lines 267-274 keep the positions
\* that idx_to_id knows.  The ids of the results.
StoreSearch(st) ==
    {st.idx_to_id[i] : i \in (0..(st.ntotal - 1)) \cap DOMAIN st.idx_to_id}

\* FAISSVectorStore.get returns something else than None
StoreGet(st, vector_id) == vector_id \in DOMAIN st.id_to_idx

StoreNext ==
    \/ \E vector_id \in SuppliedIds : StoreAdd(vector_id)
    \/ StoreAddGenerated
    \/ \E ids \in [1..2 -> SuppliedIds] : StoreAddBatch(ids)
    \/ \E vector_id \in SuppliedIds : StoreDelete(vector_id)
    \/ StoreClear

StoreSpec == CounterInit /\ [][StoreNext]_vars

(***************************************************************************)
(* Properties of TokenCounter.split_at_token_limit (checked under          *)
(* SplitSpec).                                                             *)
(***************************************************************************)
Returned == split.pc = "done"

PieceCount(i) == Count(split.chunks[i])

\* C5: the window start strictly advances on each loop iteration, and
\* whenever it would not advance the loop exits instead of repeating: at
\* the head of the loop either start is beyond the previous start or the
\* loop ends here.
StartAdvancesOrLoopExits ==
    split.pc = "loop" => split.start > split.prev_start \/ SplitExits(split)

PieceBeginsWithTailOfPrevious ==
    Returned /\ 0 < requested /\ requested < split.max_tokens =>
        \A i \in 2..Len(split.chunks) :
            LET k == requested
                p == Encode(split.chunks[i - 1])
                q == Encode(split.chunks[i])
            IN /\ Len(p) >= k
               /\ Len(q) >= k
               /\ SubSeq(q, 1, k) = SubSeq(p, Len(p) - k + 1, Len(p))

\* C8: for max_tokens >= 1 and overlap_tokens >= 0, every returned piece
\* contains at most max_tokens + min(overlap_tokens, max_tokens - 1) tokens.
PieceWithinWindowPlusOverlap ==
    Returned /\ split.max_tokens >= 1 /\ requested >= 0 =>
        \A i \in 1..Len(split.chunks) :
            PieceCount(i) <= split.max_tokens
                             + Min(requested, split.max_tokens - 1)

PieceOfWindowPlusClampedOverlap ==
    /\ Returned
    /\ split.max_tokens >= 2
    /\ requested >= split.max_tokens
    /\ \E i \in 1..Len(split.chunks) :
          PieceCount(i) = split.max_tokens + (split.max_tokens - 1)

\* C9: for overlap_tokens >= max_tokens >= 1 the call returns exactly the
\* pieces it returns for overlap_tokens = max_tokens - 1, at least one of
\* them, and its loop advances the window start on every iteration.
OversizedOverlapBehavesAsClamped ==
    split.max_tokens >= 1 /\ requested >= split.max_tokens =>
        /\ split.pc = "loop" =>
              /\ split.start > split.prev_start
              /\ split.start <= Len(split.tokens)
        /\ Returned => Len(split.chunks) >= 1
        /\ Returned /\ last.valid
                    /\ last.overlap_tokens = split.max_tokens - 1 =>
              split.chunks = last.chunks

OversizedOverlapAfterClampedCall ==
    /\ Returned
    /\ split.max_tokens >= 2
    /\ requested > split.max_tokens
    /\ last.valid
    /\ last.overlap_tokens = split.max_tokens - 1
    /\ Len(split.chunks) >= 3

\* C10: for max_tokens >= 1 the call returns a single piece if and only if
\* the text has at most max_tokens tokens, and that piece is the text itself
\* (the empty text gives the one-element list holding the empty string).
SinglePieceIffTextFits ==
    Returned /\ split.max_tokens >= 1 =>
        /\ Len(split.chunks) = 1 <=> Count(split.text) <= split.max_tokens
        /\ Count(split.text) <= split.max_tokens =>
              split.chunks = <<split.text>>
        /\ split.text = <<>> => split.chunks = << <<>> >>

SinglePieceForTextOfExactlyMaxTokens ==
    /\ Returned
    /\ last.valid
    /\ split.max_tokens >= 1
    /\ Count(split.text) = split.max_tokens
    /\ Len(split.text) > split.max_tokens
    /\ split.chunks = <<split.text>>

\* The least n with n * d >= x, for d > 0 and x >= 0.
Ceiling(x, d) == CHOOSE n \in 0..x : n * d >= x /\ (n = 0 \/ (n - 1) * d < x)

Called == entry.kind # "none"

\* C1: every returned chunk that is not marked budget-exceeded has a
\* content token count of at most max_tokens.
UnflaggedChunksWithinMaxTokens ==
    Called =>
        \A i \in 1..Len(returned) :
            ~BudgetExceeded(returned[i]) =>
                Count(returned[i].content) <= config.max_tokens

\* The input units of a document in document order, word by word: per
\* section the header (an enhanced document only) and the paragraphs, then
\* per code example the context before, the code and the context after.  A
\* code block whose fenced rendering exceeds max_tokens is force-split and
\* is left out.
RECURSIVE SectionUnits(_, _)
SectionUnits(sections, with_header) ==
    IF sections = <<>> THEN <<>>
    ELSE (IF with_header THEN Words(HeaderText(Head(sections))) ELSE <<>>)
         \o Words(Head(sections).content)
         \o SectionUnits(Tail(sections), with_header)

RECURSIVE ExampleUnits(_, _)
ExampleUnits(cfg, examples) ==
    IF examples = <<>> THEN <<>>
    ELSE LET ex == Head(examples) IN
         (IF Count(Fenced(ex.language, ex.content)) > cfg.max_tokens
          THEN <<>>
          ELSE Words(ex.context_before) \o Words(ex.content)
               \o Words(ex.context_after))
         \o ExampleUnits(cfg, Tail(examples))

DocumentUnits ==
    SectionUnits(entry.doc.sections, entry.kind = "enhanced")
    \o ExampleUnits(config, entry.doc.full_examples)

RECURSIVE ConcatContents(_)
ConcatContents(chunks) ==
    IF chunks = <<>> THEN <<>>
    ELSE Head(chunks).content \o ConcatContents(Tail(chunks))

\* The units occur in the text one after the other, from position pos on.
RECURSIVE OccurInOrder(_, _, _)
OccurInOrder(text, units, pos) ==
    IF units = <<>> THEN TRUE
    ELSE LET at == {i \in pos..(Len(text) + 1) :
                        MatchesAt(text, i, Head(units))}
         IN /\ at # {}
            /\ OccurInOrder(text, Tail(units),
                            (CHOOSE i \in at : \A j \in at : i <= j)
                            + Len(Head(units)))

\* C2: the contents of the chunks returned for a document, concatenated in
\* list order, hold every input unit in original document order (the
\* force-split code blocks excepted).
ChunkContentsReproduceDocument ==
    entry.kind \in {"enhanced", "sectioned"} =>
        OccurInOrder(ConcatContents(returned), DocumentUnits, 1)

\* C3: every chunk of a returned list of n chunks has total_chunks = n.
TotalChunksIsListLength ==
    Called =>
        \A i \in 1..Len(returned) :
            returned[i].total_chunks = Len(returned)

\* C4: in a returned list each chunk's next id is the id of the chunk after
\* it and each chunk's prev id is the id of the chunk before it, the first
\* chunk has no prev id and the last no next id, and following next ids
\* from the first chunk visits every chunk exactly once: the only chunk a
\* next id names is the chunk after it.
NextOf(i) ==
    {j \in 1..Len(returned) :
        returned[j].chunk_id = returned[i].next_chunk_id}

LinksFormOneChain ==
    Called =>
        LET n == Len(returned) IN
        /\ \A i \in 1..(n - 1) :
              /\ returned[i].next_chunk_id = returned[i + 1].chunk_id
              /\ returned[i + 1].prev_chunk_id = returned[i].chunk_id
              /\ NextOf(i) = {i + 1}
        /\ n >= 1 =>
              /\ returned[1].prev_chunk_id = NoId
              /\ returned[n].next_chunk_id = NoId
              /\ NextOf(n) = {}

ChainOfChunksWithEqualContentHash ==
    /\ entry.kind = "enhanced"
    /\ Len(returned) >= 3
    /\ \E i, j \in 1..Len(returned) :
          /\ i # j
          /\ returned[i].chunk_id[2] = returned[j].chunk_id[2]
    /\ LinksFormOneChain

(***************************************************************************)
(* Properties of construction (checked under ConstructSpec).               *)
(***************************************************************************)
\* C11: with a config in which overlap_tokens >= max_tokens or
\* min_chunk_tokens > max_tokens the constructor never gets past the
\* validation: the tokenizer is not created, no entry point is called and no
\* chunk is returned.
InvalidConfigStopsAtValidation ==
    (config.overlap_tokens >= config.max_tokens
        \/ config.min_chunk_tokens > config.max_tokens) =>
        /\ chunker.pc \in {"new", "raised"}
        /\ ~chunker.token_counter
        /\ entry = NoEntry
        /\ returned = <<>>

ConstructionRaisedOnOverlapEqualToMax ==
    /\ config.overlap_tokens = config.max_tokens
    /\ config.min_chunk_tokens <= config.max_tokens
    /\ chunker.pc = "raised"
    /\ ~chunker.token_counter

Rendering(ex) ==
    Fence \o ex.language \o <<"\n">> \o ex.content \o <<"\n">> \o Fence

FlaggedExactlyWhenOverMaxTokens ==
    Called =>
        \A i \in 1..Len(returned) :
            BudgetExceeded(returned[i])
                <=> (Count(returned[i].content) > config.max_tokens)

\* The places (holder, position) at which a unit stands in the unit lists
\* of the holders.
Places(unit_lists, unit) ==
    UNION {{<<h, k>> : k \in {k \in 1..Len(unit_lists[h]) :
                                  unit_lists[h][k] = unit}} :
           h \in 1..Len(unit_lists)}

SectionWords == [s \in 1..Len(entry.doc.sections) |->
                    Words(entry.doc.sections[s].content)]
ExampleCodeLines == [p \in 1..Len(entry.doc.full_examples) |->
                        SplitOn(entry.doc.full_examples[p].content, <<"\n">>)]
\* The words of the returned text chunks and the lines of the returned code
\* chunks.
ChunkWords == [i \in 1..Len(returned) |->
                  IF returned[i].chunk_type = "code" THEN <<>>
                  ELSE Words(returned[i].content)]
ChunkCodeLines == [i \in 1..Len(returned) |->
                      IF returned[i].chunk_type = "code"
                      THEN SplitOn(returned[i].content, <<"\n">>)
                      ELSE <<>>]

\* C15: a unit that cannot be brought under max_tokens -- a word of a
\* section paragraph with more than max_tokens tokens (paragraph mode), a
\* line of a code example that with its newline has more than max_tokens
\* tokens -- stands in the returned chunks exactly once per place it has in
\* the document, and the call returns.
OverBudgetUnitsAppearExactlyOnce ==
    entry.kind \in {"enhanced", "sectioned"} =>
        /\ config.respect_paragraph_boundaries =>
              \A s \in 1..Len(SectionWords) :
                  \A k \in 1..Len(SectionWords[s]) :
                      LET word == SectionWords[s][k] IN
                      Count(word) > config.max_tokens =>
                          Cardinality(Places(ChunkWords, word))
                              = Cardinality(Places(SectionWords, word))
        /\ \A p \in 1..Len(ExampleCodeLines) :
              \A k \in 1..Len(ExampleCodeLines[p]) :
                  LET line == ExampleCodeLines[p][k] IN
                  Count(line \o <<"\n">>) > config.max_tokens =>
                      Cardinality(Places(ChunkCodeLines, line))
                          = Cardinality(Places(ExampleCodeLines, line))

OverlongWordReturnedAsOwnChunk ==
    /\ entry.kind \in {"enhanced", "sectioned"}
    /\ config.respect_paragraph_boundaries
    /\ \E s \in 1..Len(SectionWords) :
          \E k \in 1..Len(SectionWords[s]) :
              /\ Count(SectionWords[s][k]) > config.max_tokens
              /\ \E i \in 1..Len(returned) :
                    returned[i].content = SectionWords[s][k]
              /\ Cardinality(Places(ChunkWords, SectionWords[s][k])) = 1

\* The text of the last k and of the first k tokens of a chunk content.
TrailingTokensText(content, k) ==
    LET tokens == Encode(content) IN
    Decode(SubSeq(tokens, Max(1, Len(tokens) - k + 1), Len(tokens)))
LeadingTokensText(content, k) ==
    LET tokens == Encode(content) IN
    Decode(SubSeq(tokens, 1, Min(k, Len(tokens))))

BlockLines == SplitOn(enricher.content, <<"\n">>)
IsGoodMarker(line) == CheckPatterns(line, ENHANCED_GOOD_PATTERNS) # <<>>
IsBadMarker(line) == CheckPatterns(line, ENHANCED_BAD_PATTERNS) # <<>>
MarkerLines ==
    {k \in 1..Len(BlockLines) :
        IsGoodMarker(BlockLines[k]) \/ IsBadMarker(BlockLines[k])}
NthMarker(j) ==
    CHOOSE m \in MarkerLines : Cardinality({x \in MarkerLines : x < m}) = j - 1
RegionEnd(j) ==
    IF j = Cardinality(MarkerLines) THEN Len(BlockLines)
    ELSE NthMarker(j + 1) - 1

\* C18: for a block whose first line is a marker line the splitter returns
\* one sub-unit per marker line, in order, each made of the lines from its
\* marker line to the line before the next marker line, labelled good when
\* the marker line matches a good pattern and bad when it matches only a bad
\* pattern.
OneSubUnitPerMarkerLine ==
    (enricher.pc = "done" /\ 1 \in MarkerLines) =>
        /\ Len(enricher.examples) = Cardinality(MarkerLines)
        /\ \A j \in 1..Len(enricher.examples) :
              /\ enricher.examples[j].content
                    = Join(SubSeq(BlockLines, NthMarker(j), RegionEnd(j)),
                           <<"\n">>)
              /\ enricher.examples[j].example_type
                    = IF IsGoodMarker(BlockLines[NthMarker(j)]) THEN "good"
                      ELSE "bad"

GoodRegionThenBadRegionSplitInTwo ==
    /\ enricher.pc = "done"
    /\ BlockLines = <<LineGood, LinePlain, LineBad>>
    /\ Len(enricher.examples) = 2
    /\ enricher.examples[1].example_type = "good"
    /\ enricher.examples[1].content = Join(<<LineGood, LinePlain>>, <<"\n">>)
    /\ enricher.examples[2].example_type = "bad"
    /\ enricher.examples[2].content = LineBad

(***************************************************************************)
(* Properties of TokenCounter.count (checked under CounterSpec and         *)
(* SharedCounterSpec).                                                     *)
(***************************************************************************)
\* C19: after any sequence of count calls on one instance, evictions
\* included, a call returns the number of tokens the tokenizer produces for
\* its text.
CountReturnsTokenizerCount ==
    calls[1].pc = "done" => calls[1].result = Count(calls[1].text)

\* C20: when workers interleave count calls on one shared counter, no call
\* raises an error and every call returns the token count of its own text.
SharedCountNeverRaisesAndIsCorrect ==
    \A w \in Workers :
        /\ calls[w].pc # "raised"
        /\ calls[w].pc = "done" => calls[w].result = Count(calls[w].text)

\* C27: after any sequence of count and clear_cache calls the cache holds
\* at most the limit of entries (10000; CacheLimit here); an insertion that
\* makes it exceed the limit is the only moment it holds one more, the cut
\* that follows leaves the most recently inserted entries (5000; CacheKept
\* here), the entry just inserted among them, and the lookup that follows
\* the insertion never misses.
CacheBoundedAndLookupHits ==
    LET call == calls[1] IN
    /\ call.pc # "raised"
    /\ Len(cache) <= (IF call.pc = "limit" THEN CacheLimit + 1 ELSE CacheLimit)
    /\ call.pc = "limit" => cache[Len(cache)].key = call.cache_key
    /\ call.pc = "return" => InCache(cache, call.cache_key)
    /\ (call.pc = "return" /\ call.evicted) =>
          /\ Len(cache) = CacheKept
          /\ cache[Len(cache)].key = call.cache_key

\* A call that stored its count, cut the cache and returned from it, on a
\* counter whose cache had been cleared before.
ReturnedAfterCut ==
    /\ calls[1].pc = "done"
    /\ calls[1].evicted
    /\ Len(cache) = CacheKept
    /\ cache[Len(cache)].key = calls[1].cache_key
    /\ calls[1].result = cache[Len(cache)].count

(***************************************************************************)
(* Properties of one chunker chunking several documents (checked under     *)
(* DocumentsSpec).                                                         *)
(***************************************************************************)
\* C21: the chunk list returned for a document does not depend on the
\* documents the same chunker processed earlier: it is the list (contents,
\* ids, token counts, links) that a freshly constructed chunker of the same
\* config returns for the document.
ReturnedAsByFreshChunker ==
    Called => returned = ChunkTextOn(config, entry.text, EmptyCache).chunks

(***************************************************************************)
(* Properties of the linking pass (checked under ChunkerSpec).             *)
(***************************************************************************)
\* The list the entry point last called hands to _add_chunk_relationships.
BuiltChunks(cfg, call) ==
    CASE call.kind = "chunk_text" -> SimpleTextChunking(cfg, call.text)
      [] call.kind = "enhanced" -> BuildEnhancedDocument(cfg, call.doc)
      [] call.kind = "sectioned" -> PlainSectionLoop(cfg, <<>>, call.doc.sections)
      [] OTHER -> <<>>

\* C22: the linking pass changes of a chunk only the relationship fields
\* (prev_chunk_id, next_chunk_id, overlap_prev, overlap_next,
\* overlap_token_count, total_chunks); content, chunk_id, token_count,
\* chunk_type and chunk_index stay as built, and no chunk is added, removed
\* or moved.
LinkingChangesOnlyRelationshipFields ==
    Called =>
        LET built == BuiltChunks(config, entry) IN
        /\ Len(returned) = Len(built)
        /\ \A i \in 1..Len(built) :
               returned[i] =
                   [built[i] EXCEPT
                       !.prev_chunk_id = returned[i].prev_chunk_id,
                       !.next_chunk_id = returned[i].next_chunk_id,
                       !.overlap_prev = returned[i].overlap_prev,
                       !.overlap_next = returned[i].overlap_next,
                       !.overlap_token_count = returned[i].overlap_token_count,
                       !.total_chunks = returned[i].total_chunks]

\* A list of three chunks whose middle chunk got both ids and both overlaps.
MiddleChunkLinkedWithBothOverlaps ==
    /\ Called
    /\ Len(returned) = 3
    /\ returned[2].prev_chunk_id # NoId
    /\ returned[2].next_chunk_id # NoId
    /\ returned[2].overlap_prev # NoText
    /\ returned[2].overlap_next # NoText
    /\ returned[2].overlap_token_count > 0
    /\ returned[2] # BuiltChunks(config, entry)[2]

NoBuffer == [chunks |-> <<>>, buf |-> <<>>, tokens |-> 0]

RECURSIVE SumOfCounts(_, _)
SumOfCounts(candidates, suffix) ==
    IF candidates = <<>> THEN 0
    ELSE Count(Head(candidates) \o suffix) + SumOfCounts(Tail(candidates), suffix)

\* The running count is the sum of the counts of the buffered candidates
\* (a word is counted with the blank that follows it), and a buffer of
\* several candidates is within the budget.
BufferCounted(acc, suffix) ==
    /\ acc.tokens = SumOfCounts(acc.buf, suffix)
    /\ Len(acc.buf) > 1 => acc.tokens <= config.max_tokens

WordBuffersCounted(sentence) ==
    LET words == Words(sentence) IN
    \A n \in 0..Len(words) :
        BufferCounted(WordLoop(config, NoBuffer, SubSeq(words, 1, n), 0), <<" ">>)

SentenceBuffersCounted(paragraph) ==
    LET sentences == SplitSentences(paragraph) IN
    /\ \A n \in 0..Len(sentences) :
           BufferCounted(SentenceLoop(config, NoBuffer, SubSeq(sentences, 1, n), 0), <<>>)
    /\ \A n \in 1..Len(sentences) :
           Count(sentences[n]) > config.max_tokens => WordBuffersCounted(sentences[n])

ParagraphBuffersCounted(content) ==
    LET paragraphs == SplitOn(content, ParagraphBreak) IN
    /\ \A n \in 0..Len(paragraphs) :
           BufferCounted(ParagraphLoop(config, NoBuffer, SubSeq(paragraphs, 1, n), 0), <<>>)
    /\ \A n \in 1..Len(paragraphs) :
           Count(paragraphs[n]) > config.max_tokens => SentenceBuffersCounted(paragraphs[n])

\* The words of the chunks, in the order of the chunks.
EmittedWords(chunks) ==
    Words(Join([i \in 1..Len(chunks) |-> chunks[i].content], <<" ">>))

ChunkIndexIsPositionAndIdsDistinct ==
    Called =>
        /\ \A i \in 1..Len(returned) : returned[i].chunk_index = i - 1
        /\ \A i, j \in 1..Len(returned) :
               i # j => returned[i].chunk_id # returned[j].chunk_id

\* A list built on several paths: chunks of a split section, a header
\* buffer flushed after them and the parts of a split code example, two of
\* its chunks holding the same content.
ListOfSeveralBuildPaths ==
    /\ entry.kind = "enhanced"
    /\ Len(entry.doc.sections) >= 1
    /\ Len(entry.doc.full_examples) >= 1
    /\ Count(Rendering(entry.doc.full_examples[1])) > config.max_tokens
    /\ Len(returned) >= 5
    /\ \E i, j \in 1..Len(returned) :
          /\ i < j
          /\ returned[i].chunk_type # "code"
          /\ returned[j].chunk_type = "code"
          /\ returned[j].chunk_index = j - 1
    /\ \E i, j \in 1..Len(returned) :
          i # j /\ returned[i].content = returned[j].content

(***************************************************************************)
(* Properties of the chunks of one code example (checked under CodeSpec).  *)
(***************************************************************************)
\* The code between the fence lines of a chunk content.
CodeOf(ex, content) ==
    SubSeq(content, Len(Fence \o ex.language) + 2, Len(content) - Len(Fence) - 1)

\* C23: a code block whose fenced rendering exceeds max_tokens is split at
\* top-level declaration boundaries; when the language is unknown or the
\* code has no such boundary it is split at line boundaries instead, so that
\* no part of several lines exceeds max_tokens.
OversizedCodeSplitAtDeclarationsElseAtLines ==
    (entry.kind = "enhanced" /\ Len(entry.doc.full_examples) = 1
                            /\ entry.doc.sections = <<>>) =>
        LET ex == entry.doc.full_examples[1]
            declarations == SplitAtDeclarations(ex.content)
            known == Lower(ex.language) \in {<<"p", "y", "t", "h", "o", "n">>, <<"p", "y">>}
        IN Count(Rendering(ex)) > config.max_tokens =>
              IF known /\ Len(declarations) > 1
              THEN /\ Len(returned) = Len(declarations)
                   /\ \A i \in 1..Len(returned) :
                          returned[i].content = Fenced(ex.language, declarations[i])
              ELSE /\ Join([i \in 1..Len(returned) |-> CodeOf(ex, returned[i].content)],
                           <<"\n">>) = ex.content
                   /\ \A i \in 1..Len(returned) :
                          Len(SplitOn(CodeOf(ex, returned[i].content), <<"\n">>)) > 1
                              => Count(returned[i].content) <= config.max_tokens

\* C29: every line of a block given to _split_multi_example_block stands in
\* exactly one produced sub-unit and in the original order, the non-marker
\* lines before the first marker line included: the contents of the
\* sub-units joined with newlines are the block content.
SubUnitsReproduceBlock ==
    enricher.pc = "done" =>
        Join([j \in 1..Len(enricher.examples) |-> enricher.examples[j].content],
             <<"\n">>) = enricher.content

(***************************************************************************)
(* Properties of FAISSVectorStore (checked under StoreSpec).               *)
(***************************************************************************)
\* C30: after any sequence of add, add_batch, delete and clear (add with an
\* id that is already stored included) id_to_idx and idx_to_id are inverse
\* mappings of each other, metadata_store has exactly the keys of
\* id_to_idx, next_idx is the number of vectors added since the last clear,
\* and an id that was deleted and not added again is returned neither by
\* get nor by search.
StoreMappingsInverseAndDeletedGone ==
    /\ \A vector_id \in DOMAIN store.id_to_idx :
          /\ store.id_to_idx[vector_id] \in DOMAIN store.idx_to_id
          /\ store.idx_to_id[store.id_to_idx[vector_id]] = vector_id
    /\ \A faiss_idx \in DOMAIN store.idx_to_id :
          /\ store.idx_to_id[faiss_idx] \in DOMAIN store.id_to_idx
          /\ store.id_to_idx[store.idx_to_id[faiss_idx]] = faiss_idx
    /\ DOMAIN store.metadata_store = DOMAIN store.id_to_idx
    /\ store.next_idx = store.ntotal
    /\ \A vector_id \in store.deleted :
          /\ ~StoreGet(store, vector_id)
          /\ vector_id \notin StoreSearch(store)

====
